---------------------------- MODULE Spec2Model ----------------------------
(***************************************************************************)
(* Model of the rust_os kernel (kernel/src/os.rs, os_config.rs,            *)
(* systick.rs) on its Cortex-M4 target: the task table, the scheduling     *)
(* policy update_to_next_task, the stack initialiser, the boot sequence    *)
(* scheduler_init, and the SysTick / PendSV exception handlers.            *)
(*                                                                         *)
(* A 32-bit word is the pair <<hi, lo>> of its 16-bit halves, so that      *)
(* values such as 0xFFFFFFFD and wrapping arithmetic keep their width.     *)
(***************************************************************************)
EXTENDS Integers, Sequences, FiniteSets, TLC

VARIABLES
    TASKS,              \* os_config.rs: static mut TASKS: [Tcb; MAX_TASK]
    CURRENT_TASK_IDX,   \* os.rs: static mut CURRENT_TASK_IDX
    GLOBAL_TICK_COUNT,  \* os.rs: static mut GLOBAL_TICK_COUNT (u32)
    TAKEN,              \* systick.rs: static mut TAKEN
    mem,                \* SRAM words written so far: address -> word
    regs,               \* CPU registers R4..R11
    lr,                 \* CPU link register
    pc,                 \* Thread-mode program position (a code address)
    PSP,                \* process stack pointer
    MSP,                \* main stack pointer
    spsel,              \* CONTROL.SPSEL: TRUE when Thread mode uses PSP
    SHPR3,              \* system handler priority register 3, as 4 bytes
    FPCCR,              \* [aspen, lspen]: bits 31 and 30 of FPCCR
    pendsvPending,      \* ICSR.PENDSVSET
    systickPending,     \* ICSR.PENDSTSET
    st_csr,             \* SysTick control: set of bit numbers that are 1
    st_rvr,             \* SysTick reload value
    active,             \* stack of active exceptions (numbers), innermost last
    hpc,                \* position inside each active handler, parallel to active
    framed,             \* build outcome: the Rust PendSV wrapper keeps a frame
    fault,              \* HardFault taken (default handler: endless loop)
    picks,              \* history: <<from, to>> of each update_to_next_task call
    held,               \* history: R4..R11 of each task when it was preempted,
                        \*   and whether another task has executed since
    everRan,            \* history: tasks that have run or been saved by a switch
    nticks,             \* history: number of SysTick expiries so far
    interval_ms,        \* the tick period scheduler_init asks for
    core_clk_mhz,       \* the core clock scheduler_init states
    prio_args,          \* the arguments passed to the priority-setup routines
    NVIC_IPR,           \* NVIC priority bytes written so far: IRQ offset -> byte
    AIRCR,              \* SCB application interrupt and reset control register
    GPIOD_ODR,          \* GPIO port D output data register
    toggle_value        \* toggle_gpio's local `value` in each task, or NoValue

vars == <<TASKS, CURRENT_TASK_IDX, GLOBAL_TICK_COUNT, TAKEN, mem, regs, lr, pc,
          PSP, MSP, spsel, SHPR3, FPCCR, pendsvPending, systickPending, st_csr,
          st_rvr, active, hpc, framed, fault, picks, held, everRan, nticks,
          interval_ms, core_clk_mhz, prio_args, NVIC_IPR, AIRCR, GPIOD_ODR, toggle_value>>

----------------------------------------------------------------------------
(* Bounds of the model *)

MaxTicks == 4       \* SysTick expiries explored in the system specification
MaxPrio == 2        \* task priorities 0..MaxPrio (and 255) in the policy runs
MaxPicks == 5       \* policy calls recorded in the history `picks`
NumPatterns == 2    \* register patterns a task body may load into R4..R11

----------------------------------------------------------------------------
(* 32-bit words *)

HALF == 65536

W(hi, lo) == <<hi, lo>>

ZERO == W(0, 0)

\* a + n (mod 2^32) for 0 <= n < 2^31
Add32(a, n) ==
    LET lo == a[2] + (n % HALF)
        hi == a[1] + (n \div HALF) + (lo \div HALF)
    IN  W(hi % HALF, lo % HALF)

\* a - n (mod 2^32) for 0 <= n < 2^31
Sub32(a, n) ==
    LET lo == a[2] - (n % HALF)
        hi == a[1] - (n \div HALF) - (IF lo < 0 THEN 1 ELSE 0)
    IN  W((hi + HALF) % HALF, (lo + HALF) % HALF)

Lt32(a, b) == a[1] < b[1] \/ (a[1] = b[1] /\ a[2] < b[2])

Le32(a, b) == a = b \/ Lt32(a, b)

----------------------------------------------------------------------------
(* os_config.rs *)

KERNEL_TICK_PERIOD_MS == 1
MAX_TASK == 4
SIZE_TASK_STACK == 1024
SIZE_SCHEDULER_STACK == 1024
SRAM_START == W(8192, 0)                 \* 0x2000_0000
SRAM_SIZE == 128 * 1024
SRAM_END == Add32(SRAM_START, SRAM_SIZE)

task_stack_start(i) == Sub32(SRAM_END, i * SIZE_TASK_STACK)

\* variant: the scheduler stack placed one task stack too high
scheduler_stack_start_high == Sub32(SRAM_END, (MAX_TASK - 1) * SIZE_TASK_STACK)

scheduler_stack_start == Sub32(SRAM_END, MAX_TASK * SIZE_TASK_STACK)

TASK_READY_STATE == 0
TASK_BLOCKED_STATE == 255

DUMMY_XPSR == W(256, 0)                  \* 0x0100_0000

\* The addresses of the task handlers are assigned by the linker; the model
\* gives handler i the code address <<CODE_HI, i>>.
CODE_HI == 2048

task_handler(i) == W(CODE_HI, i)

Tcb(psp, prio, st, i) ==
    [psp_value |-> psp, priority |-> prio, current_state |-> st,
     block_count |-> 0, task_handler |-> task_handler(i)]

\* variant: a table whose idle task starts BLOCKED
TASKS_INIT_idle_blocked ==
    (0 :> Tcb(ZERO, 0, TASK_BLOCKED_STATE, 0)) @@
    (1 :> Tcb(ZERO, 3, TASK_READY_STATE, 1)) @@
    (2 :> Tcb(ZERO, 3, TASK_READY_STATE, 2)) @@
    (3 :> Tcb(ZERO, 4, TASK_READY_STATE, 3))

TASKS_INIT ==
    (0 :> Tcb(ZERO, 0, TASK_READY_STATE, 0)) @@
    (1 :> Tcb(ZERO, 3, TASK_READY_STATE, 1)) @@
    (2 :> Tcb(ZERO, 3, TASK_READY_STATE, 2)) @@
    (3 :> Tcb(ZERO, 4, TASK_READY_STATE, 3))

----------------------------------------------------------------------------
(* os.rs: the helpers called from the PendSV assembly *)

USIZE_MAX == W(65535, 65535)

U8_MAX == 255

\* n = MAX_TASK is the length of the table
NTask(T) == Cardinality(DOMAIN T)

get_psp_value(T, cur) == T[cur].psp_value

\* variant: the value is stored in the slot after the current one
save_psp_value_next(T, cur, psp) ==
    [T EXCEPT ![(cur + 1) % NTask(T)].psp_value = psp]

\* variant: the store also counts in the TCB's block_count
save_psp_value_count(T, cur, psp) ==
    [T EXCEPT ![cur].psp_value = psp, ![cur].block_count = 1]

save_psp_value(T, cur, psp) == [T EXCEPT ![cur].psp_value = psp]

\* The for loop of update_to_next_task: k iterations done, i the slot to look at.
RECURSIVE ScanLoop(_, _, _, _, _, _)
ScanLoop(T, n, i, k, best, next) ==
    IF k >= n - 1 THEN next
    ELSE LET better == /\ i # 0
                       /\ T[i].current_state = TASK_READY_STATE
                       /\ Lt32(W(0, T[i].priority), best)
         IN  ScanLoop(T, n, (i + 1) % n, k + 1,
                      IF better THEN W(0, T[i].priority) ELSE best,
                      IF better THEN i ELSE next)

\* Variants of the loop with one plausible slip each, used to show that the
\* properties below depend on the code: `break` at the first READY task,
\* the READY test left out, and `p <= best` for `p < best`.
RECURSIVE ScanLoopBreak(_, _, _, _)
ScanLoopBreak(T, n, i, k) ==
    IF k >= n - 1 THEN 0
    ELSE IF i # 0 /\ T[i].current_state = TASK_READY_STATE THEN i
    ELSE ScanLoopBreak(T, n, (i + 1) % n, k + 1)

update_to_next_task_break(T, cur) ==
    ScanLoopBreak(T, NTask(T), (cur + 1) % NTask(T), 0)

RECURSIVE ScanLoopAnyState(_, _, _, _, _, _)
ScanLoopAnyState(T, n, i, k, best, next) ==
    IF k >= n - 1 THEN next
    ELSE LET better == i # 0 /\ Lt32(W(0, T[i].priority), best)
         IN  ScanLoopAnyState(T, n, (i + 1) % n, k + 1,
                              IF better THEN W(0, T[i].priority) ELSE best,
                              IF better THEN i ELSE next)

update_to_next_task_anystate(T, cur) ==
    ScanLoopAnyState(T, NTask(T), (cur + 1) % NTask(T), 0, USIZE_MAX, 0)

RECURSIVE ScanLoopLe(_, _, _, _, _, _)
ScanLoopLe(T, n, i, k, best, next) ==
    IF k >= n - 1 THEN next
    ELSE LET better == /\ i # 0
                       /\ T[i].current_state = TASK_READY_STATE
                       /\ Le32(W(0, T[i].priority), best)
         IN  ScanLoopLe(T, n, (i + 1) % n, k + 1,
                        IF better THEN W(0, T[i].priority) ELSE best,
                        IF better THEN i ELSE next)

update_to_next_task_le(T, cur) ==
    ScanLoopLe(T, NTask(T), (cur + 1) % NTask(T), 0, USIZE_MAX, 0)

\* variant: the scan starts at a slot taken from the tick counter
update_to_next_task_from_tick(T, cur) ==
    LET n == NTask(T)
    IN  ScanLoop(T, n, (GLOBAL_TICK_COUNT[2] + 1) % n, 0, USIZE_MAX, 0)

\* variant: the loop runs over all n slots (`0..n` for `0..n-1`)
RECURSIVE ScanLoopAll(_, _, _, _, _, _)
ScanLoopAll(T, n, i, k, best, next) ==
    IF k >= n THEN next
    ELSE LET better == /\ i # 0
                       /\ T[i].current_state = TASK_READY_STATE
                       /\ Lt32(W(0, T[i].priority), best)
         IN  ScanLoopAll(T, n, (i + 1) % n, k + 1,
                         IF better THEN W(0, T[i].priority) ELSE best,
                         IF better THEN i ELSE next)

update_to_next_task_all(T, cur) ==
    ScanLoopAll(T, NTask(T), (cur + 1) % NTask(T), 0, USIZE_MAX, 0)

\* The value update_to_next_task commits to CURRENT_TASK_IDX
update_to_next_task(T, cur) ==
    LET n == NTask(T)
    IN  ScanLoop(T, n, (cur + 1) % n, 0, USIZE_MAX, 0)

----------------------------------------------------------------------------
(* Cortex-M4 exception model, as far as the kernel relies on it *)

PENDSV_EXC == 14
SYSTICK_EXC == 15

\* STM32F407 implements the upper 4 bits of each priority byte; the other
\* bits are write-ignored and read as zero.
NVIC_PRIO_BITS == 4

RECURSIVE Pow2(_)
Pow2(k) == IF k = 0 THEN 1 ELSE 2 * Pow2(k - 1)

\* Variant: a part that implements all 8 bits of a priority byte
StoredPrio_full(b) == b

\* What a priority byte holds after `b` is written to it
StoredPrio(b) == b - (b % Pow2(8 - NVIC_PRIO_BITS))

PendSVPrio == SHPR3[3]      \* byte at 0xE000_ED22, SHPR3 bits 23:16
SysTickPrio == SHPR3[4]     \* byte at 0xE000_ED23, SHPR3 bits 31:24

PrioOf(exc) == IF exc = PENDSV_EXC THEN PendSVPrio ELSE SysTickPrio

RECURSIVE MinPrio(_, _)
MinPrio(s, m) ==
    IF s = <<>> THEN m
    ELSE MinPrio(Tail(s), IF PrioOf(Head(s)) < m THEN PrioOf(Head(s)) ELSE m)

\* Thread mode runs below every configurable priority
ExecPriority == MinPrio(active, U8_MAX + 1)

\* SysTick CSR bits (systick.rs)
SYSTICK_CSR_ENABLE_BIT == 0
SYSTICK_CSR_TICKINT_BIT == 1
SYSTICK_CSR_CLKSOURCE_BIT == 2
SYSTICK_RVR_MAX == 16777215              \* 0x00FF_FFFF

Pending(exc) == IF exc = PENDSV_EXC THEN pendsvPending ELSE systickPending

\* Variant: an exception of equal priority preempts
CanTake_equal(exc) ==
    /\ ~fault
    /\ Pending(exc)
    /\ PrioOf(exc) <= ExecPriority
    /\ \A o \in {PENDSV_EXC, SYSTICK_EXC} \ {exc} :
          Pending(o) =>
             \/ PrioOf(exc) < PrioOf(o)
             \/ (PrioOf(exc) = PrioOf(o) /\ exc < o)

\* exc is pending, outranks what is executing, and no other pending exception
\* precedes it (lower priority value first, then lower exception number)
CanTake(exc) ==
    /\ ~fault
    /\ Pending(exc)
    /\ PrioOf(exc) < ExecPriority
    /\ \A o \in {PENDSV_EXC, SYSTICK_EXC} \ {exc} :
          Pending(o) =>
             \/ PrioOf(exc) < PrioOf(o)
             \/ (PrioOf(exc) = PrioOf(o) /\ exc < o)

NothingToTake == ~CanTake(PENDSV_EXC) /\ ~CanTake(SYSTICK_EXC)

EXC_RETURN_HANDLER == W(65535, 65521)        \* 0xFFFFFFF1
EXC_RETURN_THREAD_MSP == W(65535, 65529)     \* 0xFFFFFFF9
EXC_RETURN_THREAD_PSP == W(65535, 65533)     \* 0xFFFFFFFD

InSram(a) == Le32(SRAM_START, a) /\ Lt32(a, SRAM_END)

\* m with the words ws stored at base, base+4, ...
WriteWords(m, base, ws) ==
    LET A == {Add32(base, 4 * (k - 1)) : k \in 1..Len(ws)}
    IN  [a \in DOMAIN m \cup A |->
            IF a \in A
            THEN ws[CHOOSE k \in 1..Len(ws) : Add32(base, 4 * (k - 1)) = a]
            ELSE m[a]]

\* SRAM holds whatever was last written; a word never written reads as 0
Load(m, a) == IF a \in DOMAIN m THEN m[a] ELSE ZERO

ActiveSP == IF active # <<>> THEN MSP ELSE IF spsel THEN PSP ELSE MSP

\* Code addresses other than the task handlers
BootPc(k) == W(CODE_HI, MAX_TASK + k)
HandlerPc(exc) == W(CODE_HI + 1, exc)
WRAPPER_RET == W(CODE_HI + 1, 0)             \* after `bl PendSV_Handler`
PANIC_PC == W(CODE_HI + 1, 1)                \* panic_handler's loop

IsTaskPc(p) == \E i \in 0..(MAX_TASK - 1) : p = task_handler(i)
TaskOfPc(p) == CHOOSE i \in 0..(MAX_TASK - 1) : p = task_handler(i)
NUM_BOOT_STEPS == 8
IsCodePc(p) ==
    \/ IsTaskPc(p)
    \/ \E k \in 0..NUM_BOOT_STEPS : p = BootPc(k)
    \/ p = PANIC_PC

\* Exception entry: the hardware stacks R0-R3, R12, LR, PC, xPSR of the
\* interrupted code on the stack it was using, and LR becomes EXC_RETURN.
\* R0-R3 and R12 of the interrupted code are not modelled and stack as 0.
EntryFrame ==
    <<ZERO, ZERO, ZERO, ZERO, ZERO, lr,
      IF active = <<>> THEN pc ELSE HandlerPc(active[Len(active)]),
      DUMMY_XPSR>>

FRAME_BYTES == 32

Enter(exc, first) ==
    LET sp == Sub32(ActiveSP, FRAME_BYTES)
    IN  /\ CanTake(exc)
        /\ IF ~InSram(sp)
           THEN /\ fault' = TRUE
                /\ UNCHANGED <<mem, lr, PSP, MSP, active, hpc, held>>
           ELSE /\ fault' = fault
                /\ mem' = WriteWords(mem, sp, EntryFrame)
                /\ lr' = IF active # <<>> THEN EXC_RETURN_HANDLER
                         ELSE IF spsel THEN EXC_RETURN_THREAD_PSP
                         ELSE EXC_RETURN_THREAD_MSP
                /\ IF active = <<>> /\ spsel
                   THEN PSP' = sp /\ MSP' = MSP
                   ELSE MSP' = sp /\ PSP' = PSP
                /\ active' = Append(active, exc)
                /\ hpc' = Append(hpc, first)
                /\ held' = IF active = <<>> /\ IsTaskPc(pc)
                           THEN [held EXCEPT ![TaskOfPc(pc)] =
                                    [valid |-> TRUE, r |-> regs, other |-> FALSE]]
                           ELSE held

\* Exception return with the EXC_RETURN value e: the hardware unstacks the
\* frame from the stack e selects and resumes the code at the stacked PC;
\* msp is the main stack pointer at that moment.
Return(e, msp) ==
    LET toPsp == e = EXC_RETURN_THREAD_PSP
        sp == IF toPsp THEN PSP ELSE msp
        newpc == Load(mem, Add32(sp, 24))
        toThread == e # EXC_RETURN_HANDLER
    IN  IF \/ e \notin {EXC_RETURN_HANDLER, EXC_RETURN_THREAD_MSP, EXC_RETURN_THREAD_PSP}
           \/ ~InSram(sp)
           \/ (toThread /\ ~IsCodePc(newpc))
        THEN /\ fault' = TRUE
             /\ UNCHANGED <<lr, pc, PSP, MSP, spsel, active, hpc, everRan>>
        ELSE /\ fault' = fault
             /\ lr' = Load(mem, Add32(sp, 20))
             /\ pc' = IF toThread THEN newpc ELSE pc
             /\ PSP' = IF toPsp THEN Add32(sp, FRAME_BYTES) ELSE PSP
             /\ MSP' = IF toPsp THEN msp ELSE Add32(sp, FRAME_BYTES)
             /\ spsel' = IF toThread THEN toPsp ELSE spsel
             /\ active' = SubSeq(active, 1, Len(active) - 1)
             /\ hpc' = SubSeq(hpc, 1, Len(hpc) - 1)
             /\ everRan' = IF toThread /\ IsTaskPc(newpc)
                           THEN everRan \cup {TaskOfPc(newpc)} ELSE everRan

InHandler(exc, at) ==
    /\ ~fault
    /\ active # <<>>
    /\ active[Len(active)] = exc
    /\ hpc[Len(hpc)] = at
    /\ NothingToTake

Goto(at) == hpc' = [hpc EXCEPT ![Len(hpc)] = at]

----------------------------------------------------------------------------
(* os.rs: init_task_stack *)

\* Variant: write first, then move the pointer (an empty-descending stack)
RECURSIVE PushWords_post(_, _, _)
PushWords_post(m, p, ws) ==
    IF ws = <<>> THEN <<m, p>>
    ELSE PushWords_post(WriteWords(m, p, <<Head(ws)>>), Sub32(p, 4), Tail(ws))

\* `p = p.offset(-1); p.write_volatile(w)` for each word of ws in turn;
\* the result is <<memory, p>>
RECURSIVE PushWords(_, _, _)
PushWords(m, p, ws) ==
    IF ws = <<>> THEN <<m, p>>
    ELSE PushWords(WriteWords(m, Sub32(p, 4), <<Head(ws)>>), Sub32(p, 4), Tail(ws))

NUM_SCRATCH_WORDS == 5      \* R12, R3, R2, R1, R0
NUM_CALLEE_WORDS == 8       \* R11 .. R4

\* Variant: LR written before PC
InitFrame_swapped(T, i) ==
    <<DUMMY_XPSR, EXC_RETURN_THREAD_PSP, T[i].task_handler>>
        \o [k \in 1..NUM_SCRATCH_WORDS |-> ZERO]
        \o [k \in 1..NUM_CALLEE_WORDS |-> ZERO]

\* The words init_task_stack writes for task i, in the order written
InitFrame(T, i) ==
    <<DUMMY_XPSR, T[i].task_handler, EXC_RETURN_THREAD_PSP>>
        \o [k \in 1..NUM_SCRATCH_WORDS |-> ZERO]
        \o [k \in 1..NUM_CALLEE_WORDS |-> ZERO]

\* The loop `for i in 0..MAX_TASK`; the result is <<memory, table>>
RECURSIVE InitTaskStackFrom(_, _, _)
InitTaskStackFrom(i, m, T) ==
    IF i >= MAX_TASK THEN <<m, T>>
    ELSE LET r == PushWords(m, task_stack_start(i), InitFrame(T, i))
         IN  InitTaskStackFrom(i + 1, r[1], [T EXCEPT ![i].psp_value = r[2]])

init_task_stack(m, T) == InitTaskStackFrom(0, m, T)

----------------------------------------------------------------------------
(* systick.rs *)

\* variant: the reload value is the number of ticks itself
ReloadOf_ticks(ticks) == ticks % (SYSTICK_RVR_MAX + 1)

\* configure_interrupt_ticks: the reload value written to st_rvr,
\* (ticks - 1) & SYSTICK_RVR_MAX, for 1 <= ticks < 2^31
ReloadOf(ticks) == (ticks - 1) % (SYSTICK_RVR_MAX + 1)

CORE_CLOCK_MHZ == 16

\* let ticks = core_clk_mhz * 1_000 * interval_ms; the arguments the model
\* draws keep the product inside the u32 range
init_systic_interrupt_ms(ms, mhz) == ReloadOf(mhz * 1000 * ms)

TickIrqOn ==
    /\ SYSTICK_CSR_ENABLE_BIT \in st_csr
    /\ SYSTICK_CSR_TICKINT_BIT \in st_csr

----------------------------------------------------------------------------
(* os.rs: scheduler_init, one action per statement *)

AtBoot(k) ==
    /\ ~fault
    /\ active = <<>>
    /\ pc = BootPc(k)
    /\ NothingToTake

\* init_scheduler_stack(scheduler_stack_start())
Boot_InitSchedulerStack ==
    /\ AtBoot(0)
    /\ MSP' = scheduler_stack_start
    /\ pc' = BootPc(1)
    /\ UNCHANGED <<TASKS, CURRENT_TASK_IDX, GLOBAL_TICK_COUNT, TAKEN, mem, regs,
                   lr, PSP, spsel, SHPR3, FPCCR, pendsvPending, systickPending,
                   st_csr, st_rvr, active, hpc, framed, fault, picks, held,
                   everRan, nticks, interval_ms, core_clk_mhz,
                   prio_args, NVIC_IPR, AIRCR, GPIOD_ODR, toggle_value>>

\* The value the code computes from v and writes back to SHPR3
ShprValue(v) == <<v[1], v[2], 255, 240>>

\* read SHPR3, clear and set the PendSV and SysTick fields, write it back
Boot_SetPriorities ==
    /\ AtBoot(1)
    /\ SHPR3' = [k \in 1..4 |-> StoredPrio(ShprValue(SHPR3)[k])]
    /\ pc' = BootPc(2)
    /\ UNCHANGED <<TASKS, CURRENT_TASK_IDX, GLOBAL_TICK_COUNT, TAKEN, mem, regs,
                   lr, PSP, MSP, spsel, FPCCR, pendsvPending, systickPending,
                   st_csr, st_rvr, active, hpc, framed, fault, picks, held,
                   everRan, nticks, interval_ms, core_clk_mhz,
                   prio_args, NVIC_IPR, AIRCR, GPIOD_ODR, toggle_value>>

\* FPCCR := (FPCCR | 1 << 31) & ~(1 << 30)
Boot_Fpccr ==
    /\ AtBoot(2)
    /\ FPCCR' = [aspen |-> TRUE, lspen |-> FALSE]
    /\ pc' = BootPc(3)
    /\ UNCHANGED <<TASKS, CURRENT_TASK_IDX, GLOBAL_TICK_COUNT, TAKEN, mem, regs,
                   lr, PSP, MSP, spsel, SHPR3, pendsvPending, systickPending,
                   st_csr, st_rvr, active, hpc, framed, fault, picks, held,
                   everRan, nticks, interval_ms, core_clk_mhz,
                   prio_args, NVIC_IPR, AIRCR, GPIOD_ODR, toggle_value>>

Boot_InitTaskStack ==
    /\ AtBoot(3)
    /\ mem' = init_task_stack(mem, TASKS)[1]
    /\ TASKS' = init_task_stack(mem, TASKS)[2]
    /\ pc' = BootPc(4)
    /\ UNCHANGED <<CURRENT_TASK_IDX, GLOBAL_TICK_COUNT, TAKEN, regs,
                   lr, PSP, MSP, spsel, SHPR3, FPCCR, pendsvPending,
                   systickPending, st_csr, st_rvr, active, hpc, framed, fault,
                   picks, held, everRan, nticks, interval_ms, core_clk_mhz,
                   prio_args, NVIC_IPR, AIRCR, GPIOD_ODR, toggle_value>>

\* SysTick::take().expect(..): None on a second take, and expect panics
Boot_TakeSysTick ==
    /\ AtBoot(4)
    /\ TAKEN' = TRUE
    /\ pc' = IF TAKEN THEN PANIC_PC ELSE BootPc(5)
    /\ UNCHANGED <<TASKS, CURRENT_TASK_IDX, GLOBAL_TICK_COUNT, mem, regs,
                   lr, PSP, MSP, spsel, SHPR3, FPCCR, pendsvPending,
                   systickPending, st_csr, st_rvr, active, hpc, framed, fault,
                   picks, held, everRan, nticks, interval_ms, core_clk_mhz,
                   prio_args, NVIC_IPR, AIRCR, GPIOD_ODR, toggle_value>>

\* systick.init_systic_interrupt_ms(KERNEL_TICK_PERIOD_MS, CORE_CLOCK_MHZ);
\* the two arguments are the variables interval_ms and core_clk_mhz
Boot_InitSysTick ==
    /\ AtBoot(5)
    /\ st_rvr' = init_systic_interrupt_ms(interval_ms, core_clk_mhz)
    /\ st_csr' = {SYSTICK_CSR_ENABLE_BIT, SYSTICK_CSR_CLKSOURCE_BIT,
                  SYSTICK_CSR_TICKINT_BIT}
    /\ pc' = BootPc(6)
    /\ UNCHANGED <<TASKS, CURRENT_TASK_IDX, GLOBAL_TICK_COUNT, TAKEN, mem, regs,
                   lr, PSP, MSP, spsel, SHPR3, FPCCR, pendsvPending,
                   systickPending, active, hpc, framed, fault, picks, held,
                   everRan, nticks, interval_ms, core_clk_mhz,
                   prio_args, NVIC_IPR, AIRCR, GPIOD_ODR, toggle_value>>

\* switch_sp_to_psp(): PSP := get_psp_value(), CONTROL.SPSEL := 1
Boot_SwitchSpToPsp ==
    /\ AtBoot(6)
    /\ PSP' = get_psp_value(TASKS, CURRENT_TASK_IDX)
    /\ spsel' = TRUE
    /\ pc' = BootPc(7)
    /\ everRan' = everRan \cup {CURRENT_TASK_IDX}
    /\ UNCHANGED <<TASKS, CURRENT_TASK_IDX, GLOBAL_TICK_COUNT, TAKEN, mem, regs,
                   lr, MSP, SHPR3, FPCCR, pendsvPending, systickPending, st_csr,
                   st_rvr, active, hpc, framed, fault, picks, held, nticks,
                   interval_ms, core_clk_mhz,
                   prio_args, NVIC_IPR, AIRCR, GPIOD_ODR, toggle_value>>

\* let entry = TASKS[CURRENT_TASK_IDX].task_handler; (entry)()
Boot_EnterTask ==
    /\ AtBoot(7)
    /\ pc' = TASKS[CURRENT_TASK_IDX].task_handler
    /\ lr' = BootPc(8)
    /\ UNCHANGED <<TASKS, CURRENT_TASK_IDX, GLOBAL_TICK_COUNT, TAKEN, mem, regs,
                   PSP, MSP, spsel, SHPR3, FPCCR, pendsvPending, systickPending,
                   st_csr, st_rvr, active, hpc, framed, fault, picks, held,
                   everRan, nticks, interval_ms, core_clk_mhz,
                   prio_args, NVIC_IPR, AIRCR, GPIOD_ODR, toggle_value>>

----------------------------------------------------------------------------
(* Task bodies (app/src/main.rs): endless loops.  What a task computes is *)
(* abstracted to loading one of NumPatterns patterns into R4..R11.        *)

PAT_HI == 43690                              \* 0xAAAA

Pattern(i, p) == [r \in 4..11 |-> W(PAT_HI + i, 16 * p + r)]

TaskRun(i) ==
    /\ ~fault
    /\ active = <<>>
    /\ pc = task_handler(i)
    /\ NothingToTake
    /\ \E p \in 1..NumPatterns : regs' = Pattern(i, p)
    /\ held' = [j \in DOMAIN held |->
                  IF j = i THEN [held[j] EXCEPT !.valid = FALSE]
                  ELSE [held[j] EXCEPT !.other = TRUE]]
    /\ UNCHANGED <<TASKS, CURRENT_TASK_IDX, GLOBAL_TICK_COUNT, TAKEN, mem, lr, pc,
                   PSP, MSP, spsel, SHPR3, FPCCR, pendsvPending, systickPending,
                   st_csr, st_rvr, active, hpc, framed, fault, picks, everRan,
                   nticks, interval_ms, core_clk_mhz,
                   prio_args, NVIC_IPR, AIRCR, GPIOD_ODR, toggle_value>>

----------------------------------------------------------------------------
(* SysTick: the timer and the handler (os.rs, fn SysTick) *)

\* The counter reaches zero with TICKINT set: the exception becomes pending
SysTickExpire ==
    /\ ~fault
    /\ TickIrqOn
    /\ ~systickPending
    /\ nticks < MaxTicks
    /\ systickPending' = TRUE
    /\ nticks' = nticks + 1
    /\ UNCHANGED <<TASKS, CURRENT_TASK_IDX, GLOBAL_TICK_COUNT, TAKEN, mem, regs,
                   lr, pc, PSP, MSP, spsel, SHPR3, FPCCR, pendsvPending, st_csr,
                   st_rvr, active, hpc, framed, fault, picks, held, everRan,
                   interval_ms, core_clk_mhz,
                   prio_args, NVIC_IPR, AIRCR, GPIOD_ODR, toggle_value>>

SysTick_Entry ==
    /\ Enter(SYSTICK_EXC, "inc")
    /\ systickPending' = FALSE
    /\ UNCHANGED <<TASKS, CURRENT_TASK_IDX, GLOBAL_TICK_COUNT, TAKEN, regs, pc,
                   spsel, SHPR3, FPCCR, pendsvPending, st_csr, st_rvr, framed,
                   picks, everRan, nticks, interval_ms, core_clk_mhz,
                   prio_args, NVIC_IPR, AIRCR, GPIOD_ODR, toggle_value>>

\* Variant: the tick handler selects the next task itself
SysTick_Inc_pick ==
    /\ InHandler(SYSTICK_EXC, "inc")
    /\ GLOBAL_TICK_COUNT' = Add32(GLOBAL_TICK_COUNT, 1)
    /\ CURRENT_TASK_IDX' = update_to_next_task(TASKS, CURRENT_TASK_IDX)
    /\ Goto("schedule")
    /\ UNCHANGED <<TASKS, TAKEN, mem, regs, lr, pc, PSP, MSP,
                   spsel, SHPR3, FPCCR, pendsvPending, systickPending, st_csr,
                   st_rvr, active, framed, fault, picks, held, everRan, nticks,
                   interval_ms, core_clk_mhz,
                   prio_args, NVIC_IPR, AIRCR, GPIOD_ODR, toggle_value>>

\* Variant: the counter stops at its largest value instead of wrapping
SysTick_Inc_saturating ==
    /\ InHandler(SYSTICK_EXC, "inc")
    /\ GLOBAL_TICK_COUNT' = IF GLOBAL_TICK_COUNT = W(65535, 65535)
                            THEN GLOBAL_TICK_COUNT
                            ELSE Add32(GLOBAL_TICK_COUNT, 1)
    /\ Goto("schedule")
    /\ UNCHANGED <<TASKS, CURRENT_TASK_IDX, TAKEN, mem, regs, lr, pc, PSP, MSP,
                   spsel, SHPR3, FPCCR, pendsvPending, systickPending, st_csr,
                   st_rvr, active, framed, fault, picks, held, everRan, nticks,
                   interval_ms, core_clk_mhz,
                   prio_args, NVIC_IPR, AIRCR, GPIOD_ODR, toggle_value>>

\* GLOBAL_TICK_COUNT = GLOBAL_TICK_COUNT.wrapping_add(1)
SysTick_Inc ==
    /\ InHandler(SYSTICK_EXC, "inc")
    /\ GLOBAL_TICK_COUNT' = Add32(GLOBAL_TICK_COUNT, 1)
    /\ Goto("schedule")
    /\ UNCHANGED <<TASKS, CURRENT_TASK_IDX, TAKEN, mem, regs, lr, pc, PSP, MSP,
                   spsel, SHPR3, FPCCR, pendsvPending, systickPending, st_csr,
                   st_rvr, active, framed, fault, picks, held, everRan, nticks,
                   interval_ms, core_clk_mhz,
                   prio_args, NVIC_IPR, AIRCR, GPIOD_ODR, toggle_value>>

\* variant: the write inverts PENDSVSET instead of setting it
schedule_toggle == pendsvPending' = ~pendsvPending

\* schedule(): write 1 << 28 to ICSR, which sets PENDSVSET
schedule == pendsvPending' = TRUE

SysTick_Schedule ==
    /\ InHandler(SYSTICK_EXC, "schedule")
    /\ schedule
    /\ Goto("ret")
    /\ UNCHANGED <<TASKS, CURRENT_TASK_IDX, GLOBAL_TICK_COUNT, TAKEN, mem, regs,
                   lr, pc, PSP, MSP, spsel, SHPR3, FPCCR, systickPending, st_csr,
                   st_rvr, active, framed, fault, picks, held, everRan, nticks,
                   interval_ms, core_clk_mhz,
                   prio_args, NVIC_IPR, AIRCR, GPIOD_ODR, toggle_value>>

SysTick_Return ==
    /\ InHandler(SYSTICK_EXC, "ret")
    /\ Return(lr, MSP)
    /\ UNCHANGED <<TASKS, CURRENT_TASK_IDX, GLOBAL_TICK_COUNT, TAKEN, mem, regs,
                   SHPR3, FPCCR, pendsvPending, systickPending, st_csr, st_rvr,
                   framed, picks, held, nticks, interval_ms, core_clk_mhz,
                   prio_args, NVIC_IPR, AIRCR, GPIOD_ODR, toggle_value>>

----------------------------------------------------------------------------
(* PendSV: the Rust wrapper (os.rs, fn PendSV) around the assembly          *)
(* PendSV_Handler, whose steps are those of the design's switch handler.    *)

PendSV_Entry ==
    /\ Enter(PENDSV_EXC, "wrapper")
    /\ pendsvPending' = FALSE
    /\ UNCHANGED <<TASKS, CURRENT_TASK_IDX, GLOBAL_TICK_COUNT, TAKEN, regs, pc,
                   spsel, SHPR3, FPCCR, systickPending, st_csr, st_rvr, framed,
                   picks, everRan, nticks, interval_ms, core_clk_mhz,
                   prio_args, NVIC_IPR, AIRCR, GPIOD_ODR, toggle_value>>

\* fn PendSV() { PendSV_Handler() }.  PendSV_Handler returns with R4..R11
\* changed, which the calling convention forbids, so what the compiled wrapper
\* does around the call decides the outcome.  Either it keeps a frame
\* (push {r7, lr}; mov r7, sp; bl PendSV_Handler; pop {r7, pc}), or it
\* branches to PendSV_Handler with the registers as the exception left them.
PendSV_Wrapper ==
    /\ InHandler(PENDSV_EXC, "wrapper")
    /\ IF framed
       THEN /\ mem' = WriteWords(mem, Sub32(MSP, 8), <<regs[7], lr>>)
            /\ MSP' = Sub32(MSP, 8)
            /\ regs' = [regs EXCEPT ![7] = Sub32(MSP, 8)]
            /\ lr' = WRAPPER_RET
       ELSE UNCHANGED <<mem, MSP, regs, lr>>
    /\ Goto("save")
    /\ UNCHANGED <<TASKS, CURRENT_TASK_IDX, GLOBAL_TICK_COUNT, TAKEN, pc, PSP,
                   spsel, SHPR3, FPCCR, pendsvPending, systickPending, st_csr,
                   st_rvr, active, framed, fault, picks, held, everRan, nticks,
                   interval_ms, core_clk_mhz,
                   prio_args, NVIC_IPR, AIRCR, GPIOD_ODR, toggle_value>>

CALLEE_BYTES == 32

RegWords(r) == [k \in 1..NUM_CALLEE_WORDS |-> r[k + 3]]

\* Steps 1-3: read PSP, push R4..R11 below it, save_psp_value(new top)
PendSV_Save ==
    /\ InHandler(PENDSV_EXC, "save")
    /\ LET top == Sub32(PSP, CALLEE_BYTES)
       IN  IF ~InSram(top)
           THEN /\ fault' = TRUE
                /\ UNCHANGED <<mem, TASKS, hpc, everRan>>
           ELSE /\ fault' = fault
                /\ mem' = WriteWords(mem, top, RegWords(regs))
                /\ TASKS' = save_psp_value(TASKS, CURRENT_TASK_IDX, top)
                /\ everRan' = everRan \cup {CURRENT_TASK_IDX}
                /\ Goto("pick")
    /\ UNCHANGED <<CURRENT_TASK_IDX, GLOBAL_TICK_COUNT, TAKEN, regs, lr, pc, PSP,
                   MSP, spsel, SHPR3, FPCCR, pendsvPending, systickPending,
                   st_csr, st_rvr, active, framed, picks, held, nticks,
                   interval_ms, core_clk_mhz,
                   prio_args, NVIC_IPR, AIRCR, GPIOD_ODR, toggle_value>>

Record(h, from, to) == IF Len(h) < MaxPicks THEN Append(h, <<from, to>>) ELSE h

\* Steps 4-5: keep LR on the main stack, call update_to_next_task
PendSV_Pick ==
    /\ InHandler(PENDSV_EXC, "pick")
    /\ mem' = WriteWords(mem, Sub32(MSP, 4), <<lr>>)
    /\ MSP' = Sub32(MSP, 4)
    /\ CURRENT_TASK_IDX' = update_to_next_task(TASKS, CURRENT_TASK_IDX)
    /\ picks' = Record(picks, CURRENT_TASK_IDX, CURRENT_TASK_IDX')
    /\ Goto("restore")
    /\ UNCHANGED <<TASKS, GLOBAL_TICK_COUNT, TAKEN, regs, lr, pc, PSP, spsel,
                   SHPR3, FPCCR, pendsvPending, systickPending, st_csr, st_rvr,
                   active, framed, fault, held, everRan, nticks,
                   interval_ms, core_clk_mhz,
                   prio_args, NVIC_IPR, AIRCR, GPIOD_ODR, toggle_value>>

\* Steps 6-8: get_psp_value(), pop R4..R11 from there, write PSP; LR back
PendSV_Restore ==
    /\ InHandler(PENDSV_EXC, "restore")
    /\ LET top == get_psp_value(TASKS, CURRENT_TASK_IDX)
       IN  IF ~InSram(top)
           THEN /\ fault' = TRUE
                /\ UNCHANGED <<regs, PSP, lr, MSP, hpc>>
           ELSE /\ fault' = fault
                /\ regs' = [r \in 4..11 |-> Load(mem, Add32(top, 4 * (r - 4)))]
                /\ PSP' = Add32(top, CALLEE_BYTES)
                /\ lr' = Load(mem, MSP)
                /\ MSP' = Add32(MSP, 4)
                /\ Goto("ret")
    /\ UNCHANGED <<TASKS, CURRENT_TASK_IDX, GLOBAL_TICK_COUNT, TAKEN, mem, pc,
                   spsel, SHPR3, FPCCR, pendsvPending, systickPending, st_csr,
                   st_rvr, active, framed, picks, held, everRan, nticks,
                   interval_ms, core_clk_mhz,
                   prio_args, NVIC_IPR, AIRCR, GPIOD_ODR, toggle_value>>

\* Step 9: bx lr.  In the framed build that returns into the wrapper, whose
\* pop {r7, pc} then performs the exception return.
PendSV_Return ==
    /\ InHandler(PENDSV_EXC, "ret")
    /\ IF lr = WRAPPER_RET
       THEN /\ regs' = [regs EXCEPT ![7] = Load(mem, MSP)]
            /\ Return(Load(mem, Add32(MSP, 4)), Add32(MSP, 8))
       ELSE /\ regs' = regs
            /\ Return(lr, MSP)
    /\ UNCHANGED <<TASKS, CURRENT_TASK_IDX, GLOBAL_TICK_COUNT, TAKEN, mem,
                   SHPR3, FPCCR, pendsvPending, systickPending, st_csr, st_rvr,
                   framed, picks, held, nticks, interval_ms, core_clk_mhz,
                   prio_args, NVIC_IPR, AIRCR, GPIOD_ODR, toggle_value>>

----------------------------------------------------------------------------
(* The system: reset, then scheduler_init, then tasks and exceptions *)

NoRegs == [r \in 4..11 |-> ZERO]

\* The process stack pointer is not initialised by reset: until the code
\* writes it, it holds an address outside SRAM or some address inside it.
STRAY_PSP == W(8192, 4096)                   \* 0x2000_1000
ResetPsp == {ZERO, STRAY_PSP}

\* AIRCR reads 0xFA05 in its key field and 0 in the rest after reset
VECTKEYSTAT == 64005                         \* 0xFA05
AIRCR_RESET == W(VECTKEYSTAT, 0)

\* no task is inside toggle_gpio
NoValue == -1

\* GPIOx_ODR is 0 after reset; init_led writes the mode and type registers only
LedsReset ==
    /\ GPIOD_ODR = 0
    /\ toggle_value = [i \in 0..(MAX_TASK - 1) |-> NoValue]

HwReset ==
    /\ mem = [a \in {} |-> ZERO]
    /\ regs = NoRegs
    /\ lr = W(65535, 65535)
    /\ pc = BootPc(0)
    /\ MSP = SRAM_END
    /\ spsel = FALSE
    /\ SHPR3 = <<0, 0, 0, 0>>
    /\ FPCCR = [aspen |-> TRUE, lspen |-> TRUE]
    /\ pendsvPending = FALSE
    /\ systickPending = FALSE
    /\ st_csr = {}
    /\ st_rvr = 0
    /\ active = <<>>
    /\ hpc = <<>>
    /\ fault = FALSE
    /\ NVIC_IPR = [k \in {} |-> 0]
    /\ AIRCR = AIRCR_RESET
    /\ LedsReset

\* variant: the current index starts one past the table
Statics_beyond_table ==
    /\ CURRENT_TASK_IDX = MAX_TASK
    /\ GLOBAL_TICK_COUNT = ZERO
    /\ TAKEN = FALSE

Statics ==
    /\ CURRENT_TASK_IDX = 1
    /\ GLOBAL_TICK_COUNT = ZERO
    /\ TAKEN = FALSE

\* the kernel does not call the priority-setup routines of the drivers
NoPrioCall == prio_args = [irq_number |-> 0, priority |-> 0, priority_group |-> 0]

\* the arguments of the shipped call (os.rs:180)
ShippedTick ==
    /\ interval_ms = KERNEL_TICK_PERIOD_MS
    /\ core_clk_mhz = CORE_CLOCK_MHZ

NoHistory ==
    /\ picks = <<>>
    /\ held = [i \in 0..(MAX_TASK - 1) |->
                 [valid |-> FALSE, r |-> NoRegs, other |-> FALSE]]
    /\ everRan = {}
    /\ nticks = 0

Init ==
    /\ TASKS = TASKS_INIT
    /\ Statics
    /\ HwReset
    /\ PSP \in ResetPsp
    /\ NoHistory
    /\ framed \in BOOLEAN
    /\ ShippedTick
    /\ NoPrioCall

Next ==
    \/ Boot_InitSchedulerStack
    \/ Boot_SetPriorities
    \/ Boot_Fpccr
    \/ Boot_InitTaskStack
    \/ Boot_TakeSysTick
    \/ Boot_InitSysTick
    \/ Boot_SwitchSpToPsp
    \/ Boot_EnterTask
    \/ \E i \in 0..(MAX_TASK - 1) : TaskRun(i)
    \/ SysTickExpire
    \/ SysTick_Entry
    \/ SysTick_Inc
    \/ SysTick_Schedule
    \/ SysTick_Return
    \/ PendSV_Entry
    \/ PendSV_Wrapper
    \/ PendSV_Save
    \/ PendSV_Pick
    \/ PendSV_Restore
    \/ PendSV_Return

Spec == Init /\ [][Next]_vars

\* The processor executes the code it is in: once the tick is enabled, every
\* remaining boot step and every handler step is taken once it can be.
\* Nothing obliges the timer to expire again or a task to change its
\* registers.
CpuRuns ==
    /\ WF_vars(Boot_SwitchSpToPsp)
    /\ WF_vars(Boot_EnterTask)
    /\ WF_vars(SysTick_Entry)
    /\ WF_vars(SysTick_Inc)
    /\ WF_vars(SysTick_Schedule)
    /\ WF_vars(SysTick_Return)
    /\ WF_vars(PendSV_Entry)
    /\ WF_vars(PendSV_Wrapper)
    /\ WF_vars(PendSV_Save)
    /\ WF_vars(PendSV_Pick)
    /\ WF_vars(PendSV_Restore)
    /\ WF_vars(PendSV_Return)

SpecLive == Spec /\ CpuRuns

----------------------------------------------------------------------------
(* The system started on any all-READY table of MAX_TASK tasks whose        *)
(* non-idle priorities are drawn from those of the shipped table.           *)

ShippedPriorities == {TASKS_INIT[i].priority : i \in 1..(MAX_TASK - 1)}

AllReadyTables ==
    {[i \in 0..(MAX_TASK - 1) |->
         Tcb(ZERO, IF i = 0 THEN TASKS_INIT[0].priority ELSE pr[i],
             TASK_READY_STATE, i)] :
        pr \in [1..(MAX_TASK - 1) -> ShippedPriorities]}

InitTables ==
    /\ TASKS \in AllReadyTables
    /\ Statics
    /\ HwReset
    /\ PSP \in ResetPsp
    /\ NoHistory
    /\ framed \in BOOLEAN
    /\ ShippedTick
    /\ NoPrioCall

SpecTables == InitTables /\ [][Next]_vars

----------------------------------------------------------------------------
(* The system started with other arguments for init_systic_interrupt_ms:    *)
(* periods and clocks whose tick count fits the 24-bit reload register or   *)
(* exceeds it.                                                              *)

TickPeriods == {1, 10, 1000, 1049, 2000}

CoreClocks == {16, 168}

InitTick ==
    /\ TASKS = TASKS_INIT
    /\ Statics
    /\ HwReset
    /\ PSP \in ResetPsp
    /\ NoHistory
    /\ framed \in BOOLEAN
    /\ interval_ms \in TickPeriods
    /\ core_clk_mhz \in CoreClocks
    /\ NoPrioCall

SpecTick == InitTick /\ [][Next]_vars

----------------------------------------------------------------------------
(* The running system after a long uptime.  The state is the one in which   *)
(* scheduler_init has entered the first task, with the tick counter         *)
(* standing where 2^32 - k ticks have brought it; nothing in the kernel     *)
(* reads the counter.                                                       *)

LateTickCounts == {ZERO} \cup {Sub32(ZERO, k) : k \in 1..(MaxTicks - 1)}

Booted ==
    /\ mem = init_task_stack([a \in {} |-> ZERO], TASKS_INIT)[1]
    /\ TASKS = init_task_stack([a \in {} |-> ZERO], TASKS_INIT)[2]
    /\ CURRENT_TASK_IDX = 1
    /\ TAKEN = TRUE
    /\ regs = NoRegs
    /\ lr = BootPc(8)
    /\ pc = task_handler(1)
    /\ PSP = TASKS[1].psp_value
    /\ MSP = scheduler_stack_start
    /\ spsel = TRUE
    /\ SHPR3 = [k \in 1..4 |-> StoredPrio(ShprValue(<<0, 0, 0, 0>>)[k])]
    /\ FPCCR = [aspen |-> TRUE, lspen |-> FALSE]
    /\ pendsvPending = FALSE
    /\ systickPending = FALSE
    /\ st_csr = {SYSTICK_CSR_ENABLE_BIT, SYSTICK_CSR_CLKSOURCE_BIT,
                 SYSTICK_CSR_TICKINT_BIT}
    /\ st_rvr = init_systic_interrupt_ms(KERNEL_TICK_PERIOD_MS, CORE_CLOCK_MHZ)
    /\ active = <<>>
    /\ hpc = <<>>
    /\ fault = FALSE
    /\ picks = <<>>
    /\ held = [i \in 0..(MAX_TASK - 1) |->
                 [valid |-> FALSE, r |-> NoRegs, other |-> FALSE]]
    /\ everRan = {1}
    /\ nticks = 0
    /\ ShippedTick
    /\ NoPrioCall
    /\ NVIC_IPR = [k \in {} |-> 0]
    /\ AIRCR = AIRCR_RESET
    /\ LedsReset

InitUptime ==
    /\ Booted
    /\ GLOBAL_TICK_COUNT \in LateTickCounts
    /\ framed \in BOOLEAN

NextUptime ==
    \/ \E i \in 0..(MAX_TASK - 1) : TaskRun(i)
    \/ SysTickExpire
    \/ SysTick_Entry
    \/ SysTick_Inc
    \/ SysTick_Schedule
    \/ SysTick_Return
    \/ PendSV_Entry
    \/ PendSV_Wrapper
    \/ PendSV_Save
    \/ PendSV_Pick
    \/ PendSV_Restore
    \/ PendSV_Return

SpecUptime == InitUptime /\ [][NextUptime]_vars

----------------------------------------------------------------------------
(* schedule() called more than once before the switch handler can run: the  *)
(* tick handler, which PendSV cannot preempt, calls it a second time before *)
(* it returns.                                                              *)

SysTick_ScheduleAgain ==
    /\ InHandler(SYSTICK_EXC, "ret")
    /\ schedule
    /\ Goto("again")
    /\ UNCHANGED <<TASKS, CURRENT_TASK_IDX, GLOBAL_TICK_COUNT, TAKEN, mem, regs,
                   lr, pc, PSP, MSP, spsel, SHPR3, FPCCR, systickPending, st_csr,
                   st_rvr, active, framed, fault, picks, held, everRan, nticks,
                   interval_ms, core_clk_mhz,
                   prio_args, NVIC_IPR, AIRCR, GPIOD_ODR, toggle_value>>

SysTick_ReturnAgain ==
    /\ InHandler(SYSTICK_EXC, "again")
    /\ Return(lr, MSP)
    /\ UNCHANGED <<TASKS, CURRENT_TASK_IDX, GLOBAL_TICK_COUNT, TAKEN, mem, regs,
                   SHPR3, FPCCR, pendsvPending, systickPending, st_csr, st_rvr,
                   framed, picks, held, nticks, interval_ms, core_clk_mhz,
                   prio_args, NVIC_IPR, AIRCR, GPIOD_ODR, toggle_value>>

NextTwice == Next \/ SysTick_ScheduleAgain \/ SysTick_ReturnAgain

SpecTwice == Init /\ [][NextTwice]_vars

----------------------------------------------------------------------------
(* drivers/src/cortex_m4.rs: the priority-setup routines, called by         *)
(* application code before scheduler_init with the arguments prio_args.     *)

\* bitwise OR of two numbers below 2^k
RECURSIVE BitOr(_, _, _)
BitOr(a, b, k) ==
    IF k = 0 THEN 0
    ELSE (IF a % 2 = 1 \/ b % 2 = 1 THEN 1 ELSE 0) + 2 * BitOr(a \div 2, b \div 2, k - 1)

NUM_IRQ == 240

VECTKEY == 1530                              \* 0x5FA, the upper half of 0x5FA << 16

PRIGROUP_SHIFT == 256                        \* 1 << 8

AtApp == ~fault /\ active = <<>> /\ pc = BootPc(0)

\* write_register(ipr_addr as *mut u32, priority_value as u32): a word store
\* at byte offset irq, which sets that byte and clears the three above it
IprStore(ipr, irq, value) ==
    [k \in DOMAIN ipr \cup irq..(irq + 3) |->
        IF k = irq THEN StoredPrio(value)
        ELSE IF k \in (irq + 1)..(irq + 3) THEN 0
        ELSE ipr[k]]

\* variant: the range check left out
set_interrupt_priority_unchecked ==
    /\ AtApp
    /\ LET irq == prio_args.irq_number
           value == (prio_args.priority * 16) % 256
       IN  IF irq % 4 # 0
           THEN \/ fault' = TRUE /\ UNCHANGED NVIC_IPR
                \/ fault' = fault /\ NVIC_IPR' = IprStore(NVIC_IPR, irq, value)
           ELSE fault' = fault /\ NVIC_IPR' = IprStore(NVIC_IPR, irq, value)
    /\ UNCHANGED <<TASKS, CURRENT_TASK_IDX, GLOBAL_TICK_COUNT, TAKEN, mem, regs,
                   lr, pc, PSP, MSP, spsel, SHPR3, FPCCR, pendsvPending,
                   systickPending, st_csr, st_rvr, active, hpc, framed, picks,
                   held, everRan, nticks, interval_ms, core_clk_mhz,
                   prio_args, AIRCR, GPIOD_ODR, toggle_value>>

\* set_interrupt_priority(irq_number, priority).  The word store is aligned
\* only when irq_number is a multiple of 4; what an unaligned store to the
\* private peripheral bus does is not defined: it faults or it is performed.
set_interrupt_priority ==
    /\ AtApp
    /\ LET irq == prio_args.irq_number
           value == (prio_args.priority * 16) % 256
       IN  IF irq >= NUM_IRQ
           THEN pc' = PANIC_PC /\ UNCHANGED <<NVIC_IPR, fault>>
           ELSE /\ pc' = pc
                /\ IF irq % 4 # 0
                   THEN \/ fault' = TRUE /\ UNCHANGED NVIC_IPR
                        \/ fault' = fault /\ NVIC_IPR' = IprStore(NVIC_IPR, irq, value)
                   ELSE fault' = fault /\ NVIC_IPR' = IprStore(NVIC_IPR, irq, value)
    /\ UNCHANGED <<TASKS, CURRENT_TASK_IDX, GLOBAL_TICK_COUNT, TAKEN, mem, regs,
                   lr, PSP, MSP, spsel, SHPR3, FPCCR, pendsvPending,
                   systickPending, st_csr, st_rvr, active, hpc, framed, picks,
                   held, everRan, nticks, interval_ms, core_clk_mhz,
                   prio_args, AIRCR, GPIOD_ODR, toggle_value>>

\* (current & !PRIGROUP_MASK) | VECTKEY | (priority_group << 8)
AircrValue(current, group) ==
    W(BitOr(current[1], VECTKEY, 16),
      current[2] - ((current[2] \div PRIGROUP_SHIFT) % 8) * PRIGROUP_SHIFT
                 + group * PRIGROUP_SHIFT)

\* The register takes a write only if its key field is 0x05FA, keeps the
\* group field of the written value and reads 0xFA05 in the key field
AircrWrite(value) ==
    IF value[1] = VECTKEY
    THEN W(VECTKEYSTAT, ((value[2] \div PRIGROUP_SHIFT) % 8) * PRIGROUP_SHIFT)
    ELSE AIRCR

\* set_interrupt_priority_grouping(priority_group)
set_interrupt_priority_grouping ==
    /\ AtApp
    /\ IF prio_args.priority_group > 7
       THEN pc' = PANIC_PC /\ AIRCR' = AIRCR
       ELSE pc' = pc /\ AIRCR' = AircrWrite(AircrValue(AIRCR, prio_args.priority_group))
    /\ UNCHANGED <<TASKS, CURRENT_TASK_IDX, GLOBAL_TICK_COUNT, TAKEN, mem, regs,
                   lr, PSP, MSP, spsel, SHPR3, FPCCR, pendsvPending,
                   systickPending, st_csr, st_rvr, active, hpc, framed, fault,
                   picks, held, everRan, nticks, interval_ms, core_clk_mhz,
                   prio_args, NVIC_IPR, GPIOD_ODR, toggle_value>>

IrqNumbers == {0, 4, 6, 236, 239, 240, 241, 1000}

Priorities == {0, 3, 15, 16}

PriorityGroups == {0, 5, 7, 8, 255}

InitPrio ==
    /\ TASKS = TASKS_INIT
    /\ Statics
    /\ HwReset
    /\ PSP = ZERO
    /\ NoHistory
    /\ framed = FALSE
    /\ ShippedTick
    /\ prio_args \in [irq_number : IrqNumbers, priority : Priorities,
                      priority_group : PriorityGroups]

NextPrio == set_interrupt_priority \/ set_interrupt_priority_grouping

SpecPrio == InitPrio /\ [][NextPrio]_vars

----------------------------------------------------------------------------
(* scheduler_init called a second time: it is a public function, and a      *)
(* task body can call it.                                                   *)

\* the call is explored while fewer than MaxCallTick ticks have expired
MaxCallTick == 1

\* bl scheduler_init from the body of task i
TaskCallsSchedulerInit(i) ==
    /\ ~fault
    /\ active = <<>>
    /\ pc = task_handler(i)
    /\ NothingToTake
    /\ nticks < MaxCallTick
    /\ pc' = BootPc(0)
    /\ lr' = task_handler(i)
    /\ UNCHANGED <<TASKS, CURRENT_TASK_IDX, GLOBAL_TICK_COUNT, TAKEN, mem, regs,
                   PSP, MSP, spsel, SHPR3, FPCCR, pendsvPending, systickPending,
                   st_csr, st_rvr, active, hpc, framed, fault, picks, held,
                   everRan, nticks, interval_ms, core_clk_mhz,
                   prio_args, NVIC_IPR, AIRCR, GPIOD_ODR, toggle_value>>

NextAgain == Next \/ \E i \in 0..(MAX_TASK - 1) : TaskCallsSchedulerInit(i)

SpecAgain == Init /\ [][NextAgain]_vars

----------------------------------------------------------------------------
(* The task bodies: each task toggles its LED for ever (main.rs), and       *)
(* toggle_gpio reads the output register, flips one bit and writes the      *)
(* word back (gpio.rs).                                                     *)

LED_1_PIN == 12
LED_2_PIN == 13
LED_3_PIN == 14
LED_4_PIN == 15

\* the pin that the body of task i toggles
LedPinOf(i) ==
    CASE i = 0 -> LED_1_PIN
      [] i = 1 -> LED_2_PIN
      [] i = 2 -> LED_3_PIN
      [] i = 3 -> LED_4_PIN

BitSet(v, pin) == (v \div Pow2(pin)) % 2 = 1

\* value ^ (1 << pin)
Toggled(v, pin) == IF BitSet(v, pin) THEN v - Pow2(pin) ELSE v + Pow2(pin)

\* let value = read_register(odr_addr);
toggle_gpio_read(i) ==
    /\ ~fault
    /\ active = <<>>
    /\ pc = task_handler(i)
    /\ NothingToTake
    /\ toggle_value[i] = NoValue
    /\ toggle_value' = [toggle_value EXCEPT ![i] = GPIOD_ODR]
    /\ UNCHANGED <<TASKS, CURRENT_TASK_IDX, GLOBAL_TICK_COUNT, TAKEN, mem, regs,
                   lr, pc, PSP, MSP, spsel, SHPR3, FPCCR, pendsvPending,
                   systickPending, st_csr, st_rvr, active, hpc, framed, fault,
                   picks, held, everRan, nticks, interval_ms, core_clk_mhz,
                   prio_args, NVIC_IPR, AIRCR, GPIOD_ODR>>

\* let toggled = value ^ (1 << pin); write_register(odr_addr, toggled);
toggle_gpio_write(i) ==
    /\ ~fault
    /\ active = <<>>
    /\ pc = task_handler(i)
    /\ NothingToTake
    /\ toggle_value[i] # NoValue
    /\ GPIOD_ODR' = Toggled(toggle_value[i], LedPinOf(i))
    /\ toggle_value' = [toggle_value EXCEPT ![i] = NoValue]
    /\ UNCHANGED <<TASKS, CURRENT_TASK_IDX, GLOBAL_TICK_COUNT, TAKEN, mem, regs,
                   lr, pc, PSP, MSP, spsel, SHPR3, FPCCR, pendsvPending,
                   systickPending, st_csr, st_rvr, active, hpc, framed, fault,
                   picks, held, everRan, nticks, interval_ms, core_clk_mhz,
                   prio_args, NVIC_IPR, AIRCR>>

NextLeds ==
    \/ Next
    \/ \E i \in 0..(MAX_TASK - 1) : toggle_gpio_read(i)
    \/ \E i \in 0..(MAX_TASK - 1) : toggle_gpio_write(i)

SpecLeds == Init /\ [][NextLeds]_vars

----------------------------------------------------------------------------
(* The policy on its own: update_to_next_task called again and again on a   *)
(* table of 1..MAX_TASK tasks whose priorities and states are drawn from    *)
(* bounded sets, starting from any current index.  Task 0 is the idle task  *)
(* and READY.                                                               *)

PrioVals == 0..MaxPrio \cup {U8_MAX}

TaskStates == {TASK_READY_STATE, TASK_BLOCKED_STATE}

Tables(n) ==
    {[i \in 0..(n - 1) |-> Tcb(ZERO, pr[i], st[i], i)] :
        pr \in [0..(n - 1) -> PrioVals],
        st \in {f \in [0..(n - 1) -> TaskStates] : f[0] = TASK_READY_STATE}}

InitPolicy ==
    /\ \E n \in 1..MAX_TASK :
          /\ TASKS \in Tables(n)
          /\ CURRENT_TASK_IDX \in 0..(n - 1)
    /\ GLOBAL_TICK_COUNT = ZERO
    /\ TAKEN = FALSE
    /\ HwReset
    /\ PSP = ZERO
    /\ NoHistory
    /\ framed = FALSE
    /\ ShippedTick
    /\ NoPrioCall

PolicyCall ==
    /\ CURRENT_TASK_IDX' = update_to_next_task(TASKS, CURRENT_TASK_IDX)
    /\ picks' = Record(picks, CURRENT_TASK_IDX, CURRENT_TASK_IDX')
    /\ UNCHANGED <<TASKS, GLOBAL_TICK_COUNT, TAKEN, mem, regs, lr, pc, PSP, MSP,
                   spsel, SHPR3, FPCCR, pendsvPending, systickPending, st_csr,
                   st_rvr, active, hpc, framed, fault, held, everRan, nticks,
                   interval_ms, core_clk_mhz,
                   prio_args, NVIC_IPR, AIRCR, GPIOD_ODR, toggle_value>>

NextPolicy == PolicyCall

\* The switch handler runs at every tick, so the policy is called for ever
SpecPolicy == InitPolicy /\ [][NextPolicy]_vars /\ WF_vars(PolicyCall)

----------------------------------------------------------------------------
(* Properties *)

Tasks == 0..(MAX_TASK - 1)

\* Task i executes in Thread mode
Running(i) ==
    /\ ~fault
    /\ active = <<>>
    /\ pc = task_handler(i)
    /\ NothingToTake

\* C1: a task that was preempted and is running again after another task has
\* executed finds in R4..R11 the values it held when it was preempted.
RegistersPreserved ==
    \A i \in Tasks :
        (Running(i) /\ held[i].valid /\ held[i].other) => regs = held[i].r

\* The selections recorded so far
Picked(k) == picks[k][2]

NonIdle(T) == DOMAIN T \ {0}

ReadyNonIdle(T) == {i \in NonIdle(T) : T[i].current_state = TASK_READY_STATE}

\* C3: whenever some non-idle task is READY, every selection is a READY
\* non-idle task whose priority value is the least among all READY non-idle
\* tasks.
SelectsLowestPriorityValue ==
    \A k \in 1..Len(picks) :
        ReadyNonIdle(TASKS) # {} =>
            /\ Picked(k) \in ReadyNonIdle(TASKS)
            /\ \A j \in ReadyNonIdle(TASKS) :
                  TASKS[Picked(k)].priority <= TASKS[j].priority

\* C4: the idle task is selected only when no non-idle task is READY.
IdleOnlyAsFallback ==
    \A k \in 1..Len(picks) : Picked(k) = 0 => ReadyNonIdle(TASKS) = {}

\* C5: when every non-idle task is BLOCKED, every call selects task 0,
\* whatever the current index was.
IdleFallback ==
    (\A i \in NonIdle(TASKS) : TASKS[i].current_state = TASK_BLOCKED_STATE) =>
        \A k \in 1..Len(picks) : Picked(k) = 0

IdleFallback_witness ==
    /\ NTask(TASKS) = 2
    /\ TASKS[1].current_state = TASK_BLOCKED_STATE
    /\ Len(picks) >= 3
    /\ picks[1] = <<1, 0>>
    /\ picks[3] = <<0, 0>>

\* C6: with four tasks, all READY, none preferred by its priority, starting
\* from task 0, the selections run 1, 2, 3, 0, 1, 2, 3, 0, ...
RoundRobinOrder ==
    (/\ NTask(TASKS) = MAX_TASK
     /\ ReadyNonIdle(TASKS) = NonIdle(TASKS)
     /\ \A i, j \in DOMAIN TASKS : TASKS[i].priority = TASKS[j].priority
     /\ Len(picks) >= 1
     /\ picks[1][1] = 0)
        => \A k \in 1..Len(picks) : Picked(k) = k % MAX_TASK

\* The READY non-idle tasks that share the lowest priority value
TieSet(T) ==
    {i \in ReadyNonIdle(T) :
        \A j \in ReadyNonIdle(T) : T[i].priority <= T[j].priority}

\* Slots passed before slot i is met in the scan that starts after cur
ScanDistance(T, cur, i) == (i - cur - 1 + NTask(T)) % NTask(T)

FirstMet(T, cur) ==
    CHOOSE i \in TieSet(T) :
        \A j \in TieSet(T) : ScanDistance(T, cur, i) <= ScanDistance(T, cur, j)

TieBreakStep ==
    Cardinality(TieSet(TASKS)) >= 2 =>
        CURRENT_TASK_IDX' = FirstMet(TASKS, CURRENT_TASK_IDX)

Fresh(i) ==
    /\ pc \notin {BootPc(k) : k \in 0..3}
    /\ i \notin everRan

WordAt(a) == IF a \in DOMAIN mem THEN <<mem[a]>> ELSE <<>>

FrameWord(i, k) == WordAt(Add32(TASKS[i].psp_value, 4 * k))

\* C8, as stated: xPSR at word 14 above psp_value, the entry address at word
\* 13, 0xFFFFFFFD at word 12, zeros in words 0..11.
FrameAsTested ==
    \A i \in Tasks :
        Fresh(i) =>
            /\ FrameWord(i, 14) = <<DUMMY_XPSR>>
            /\ FrameWord(i, 13) = <<TASKS[i].task_handler>>
            /\ FrameWord(i, 12) = <<EXC_RETURN_THREAD_PSP>>
            /\ \A k \in 0..11 : FrameWord(i, k) = <<ZERO>>

\* C8, amended: xPSR at word 15 above psp_value, the entry address at word
\* 14, 0xFFFFFFFD at word 13, zeros in words 0..12.
FrameWellFormed ==
    \A i \in Tasks :
        Fresh(i) =>
            /\ FrameWord(i, 15) = <<DUMMY_XPSR>>
            /\ FrameWord(i, 14) = <<TASKS[i].task_handler>>
            /\ FrameWord(i, 13) = <<EXC_RETURN_THREAD_PSP>>
            /\ \A k \in 0..12 : FrameWord(i, k) = <<ZERO>>

FrameWellFormed_witness ==
    /\ Fresh(2)
    /\ 1 \in everRan
    /\ FrameWord(2, 14) = <<task_handler(2)>>
    /\ FrameWord(3, 14) = <<task_handler(3)>>

\* The addresses written inside task i's stack region
WrittenIn(i) ==
    {a \in DOMAIN mem :
        /\ Le32(Sub32(task_stack_start(i), SIZE_TASK_STACK), a)
        /\ Lt32(a, task_stack_start(i))}

\* C9: after init_task_stack exactly 16 words are written below
\* task_stack_start(i): from the top down xPSR, the entry address, 0xFFFFFFFD
\* and 13 zeros; psp_value is the address of the lowest of them.
SyntheticFrame ==
    \A i \in Tasks :
        Fresh(i) =>
            /\ WrittenIn(i) = {Sub32(task_stack_start(i), 4 * k) : k \in 1..16}
            /\ mem[Sub32(task_stack_start(i), 4)] = DUMMY_XPSR
            /\ mem[Sub32(task_stack_start(i), 8)] = TASKS[i].task_handler
            /\ mem[Sub32(task_stack_start(i), 12)] = EXC_RETURN_THREAD_PSP
            /\ \A k \in 4..16 : mem[Sub32(task_stack_start(i), 4 * k)] = ZERO
            /\ TASKS[i].psp_value = Sub32(task_stack_start(i), 64)

SyntheticFrame_witness ==
    /\ pc = BootPc(4)
    /\ \A i \in Tasks : Cardinality(WrittenIn(i)) = 16
    /\ TASKS[0].psp_value = W(8193, 65472)      \* 0x2001_FFC0

\* C10: while the tick interrupt is enabled the PendSV priority byte is
\* numerically greater than the SysTick priority byte.
PendSVBelowSysTick == TickIrqOn => PendSVPrio > SysTickPrio

\* Number of invocations of exc that have begun and not returned
Invocations(exc) == Cardinality({k \in 1..Len(active) : active[k] = exc})

\* The handler on top of the stack of active exceptions and its position
Top == active[Len(active)]
TopAt == hpc[Len(hpc)]

SwitchInProgress == pendsvPending \/ Invocations(PENDSV_EXC) > 0

\* C12: from the moment a switch is pended until the switch handler that
\* serves it has returned, no execution of the tick handler begins.
TickToSwitchAtomic ==
    [][SwitchInProgress => Invocations(SYSTICK_EXC)' <= Invocations(SYSTICK_EXC)]_vars

TickToSwitchAtomic_witness ==
    /\ active = <<SYSTICK_EXC>>
    /\ TopAt = "ret"
    /\ pendsvPending
    /\ systickPending
    /\ spsel

\* The switch handler is the running handler, at position `at`
SwitchAt(at) == ~fault /\ active # <<>> /\ Top = PENDSV_EXC /\ TopAt = at

\* A step that writes the task table or the current task index
TableWritten == TASKS' # TASKS \/ CURRENT_TASK_IDX' # CURRENT_TASK_IDX

\* C13: the task table and the current task index are written by the switch
\* handler alone (and by init_task_stack before any switch), also when a tick
\* arrives while the handler runs; so between its steps the handler finds
\* them as it left them: the pointer it saved is still the saved one when it
\* selects, and the pointer it loads is the selected task's.
ConsistentSnapshot ==
    /\ [][TableWritten =>
            \/ active # <<>> /\ Top = PENDSV_EXC
            \/ active = <<>> /\ pc = BootPc(3)]_vars
    /\ [](SwitchAt("pick") =>
            TASKS[CURRENT_TASK_IDX].psp_value = Sub32(PSP, CALLEE_BYTES))
    /\ [](SwitchAt("ret") =>
            PSP = Add32(TASKS[CURRENT_TASK_IDX].psp_value, CALLEE_BYTES))

ConsistentSnapshot_witness ==
    /\ SwitchAt("pick")
    /\ systickPending
    /\ GLOBAL_TICK_COUNT = W(0, 2)
    /\ CURRENT_TASK_IDX = 2

\* A step in which an invocation of the switch handler begins
SwitchBegins == Invocations(PENDSV_EXC)' > Invocations(PENDSV_EXC)

InRegion(i, a) ==
    /\ Lt32(Sub32(task_stack_start(i), SIZE_TASK_STACK), a)
    /\ Le32(a, task_stack_start(i))

TickRuns == ~fault /\ active # <<>> /\ Top = SYSTICK_EXC

\* Thread mode runs the selected task on its own stack
SelectedResumed ==
    /\ ~fault
    /\ active = <<>>
    /\ spsel
    /\ InRegion(CURRENT_TASK_IDX, PSP)

EnteringFirstTask == ~fault /\ active = <<>> /\ pc = BootPc(7)

FirstTaskIsPicked ==
    (EnteringFirstTask /\ picks = <<>>) =>
        /\ CURRENT_TASK_IDX \in TieSet(TASKS)
        /\ \E c \in DOMAIN TASKS :
              CURRENT_TASK_IDX = update_to_next_task(TASKS, c)

\* init_task_stack has run
StacksInitialised == pc \notin {BootPc(k) : k \in 0..3}

\* a is the lowest word of a saved frame of 16 words: R4..R11, then what the
\* hardware stacked, with a code address as PC and the Thumb bit in xPSR
SavedFrameAt(a) ==
    /\ \A k \in 0..15 : Add32(a, 4 * k) \in DOMAIN mem
    /\ IsCodePc(mem[Add32(a, 4 * 14)])
    /\ mem[Add32(a, 4 * 15)] = DUMMY_XPSR

StackRegion(top, size) == [lo |-> Sub32(top, size), hi |-> top]

TaskRegion(i) == StackRegion(task_stack_start(i), SIZE_TASK_STACK)

SchedulerRegion == StackRegion(scheduler_stack_start, SIZE_SCHEDULER_STACK)

Disjoint(r, q) == Le32(r.hi, q.lo) \/ Le32(q.hi, r.lo)

InsideSram(r) == /\ Le32(SRAM_START, r.lo) /\ Lt32(r.lo, r.hi) /\ Le32(r.hi, SRAM_END)

\* C19: the task stack regions are pairwise disjoint, none overlaps the
\* scheduler stack region, and all of them lie inside SRAM; the stack
\* pointers set up by scheduler_init are the tops these regions are built on.
StackGeometry ==
    /\ \A i \in Tasks : \A j \in Tasks \ {i} : Disjoint(TaskRegion(i), TaskRegion(j))
    /\ \A i \in Tasks : Disjoint(TaskRegion(i), SchedulerRegion)
    /\ \A i \in Tasks : InsideSram(TaskRegion(i))
    /\ InsideSram(SchedulerRegion)
    /\ (active = <<>> /\ pc = BootPc(1)) => MSP = SchedulerRegion.hi
    /\ (active = <<>> /\ pc = BootPc(4)) =>
           \A i \in Tasks : /\ Le32(TaskRegion(i).lo, TASKS[i].psp_value)
                            /\ Lt32(TASKS[i].psp_value, TaskRegion(i).hi)

StackGeometry_witness ==
    /\ active = <<>>
    /\ pc = BootPc(4)
    /\ MSP = scheduler_stack_start
    /\ TASKS[MAX_TASK - 1].psp_value = Sub32(task_stack_start(MAX_TASK - 1), 64)

\* C20: the idle task is READY in every reachable state; no tick, switch
\* request or context switch puts task 0 into BLOCKED.
IdleAlwaysReady == TASKS[0].current_state = TASK_READY_STATE

IdleAlwaysReady_witness ==
    /\ TASKS[0].current_state = TASK_READY_STATE
    /\ ~fault
    /\ active = <<>>
    /\ spsel
    /\ nticks >= 2
    /\ Len(picks) >= 2

\* C21: the current task index is always an index of the task table, so
\* get_psp_value, save_psp_value and scheduler_init read and write inside it.
CurrentIndexInRange ==
    /\ CURRENT_TASK_IDX \in 0..(MAX_TASK - 1)
    /\ CURRENT_TASK_IDX \in DOMAIN TASKS

CurrentIndexInRange_witness ==
    /\ SwitchAt("restore")
    /\ CURRENT_TASK_IDX \in DOMAIN TASKS
    /\ Len(picks) >= 3
    /\ spsel

\* the reload value the caller asks for: one less than the ticks in a period
WantedReload == core_clk_mhz * 1000 * interval_ms - 1

FitsReload == WantedReload <= SYSTICK_RVR_MAX

\* init_systic_interrupt_ms has returned
TickInitDone == ~fault /\ active = <<>> /\ pc = BootPc(6)

\* C22: when core_clk_mhz * 1000 * interval_ms - 1 fits in 24 bits,
\* init_systic_interrupt_ms programs the reload register with that value
\* and starts the timer; for 1 ms at 16 MHz the reload value is 15999.
TickCadence ==
    /\ (TickInitDone /\ FitsReload) => (st_rvr = WantedReload /\ TickIrqOn)
    /\ (TickInitDone /\ interval_ms = 1 /\ core_clk_mhz = 16) => st_rvr = 15999

TickCadence_witness ==
    /\ TickInitDone
    /\ FitsReload
    /\ interval_ms = 1000
    /\ st_rvr = 15999999
    /\ TickIrqOn

\* C23: when core_clk_mhz * 1000 * interval_ms - 1 exceeds 24 bits, tick
\* initialisation halts: the timer is never started and no reload value is
\* written.
ReloadOverflowHalts == ~FitsReload => (st_csr = {} /\ st_rvr = 0)

TickAt(at) == active # <<>> /\ Top = SYSTICK_EXC /\ TopAt = at

\* a + 1 modulo 2^32, digit by digit
Succ32(a) ==
    IF a[2] < HALF - 1 THEN W(a[1], a[2] + 1)
    ELSE IF a[1] < HALF - 1 THEN W(a[1] + 1, 0)
    ELSE ZERO

\* C24: an execution of the SysTick handler first increments the tick
\* counter by exactly 1 modulo 2^32 and then sets the PendSV pending bit;
\* nothing else changes the counter.
TickHandlerEffect ==
    [][ /\ (TickAt("inc") /\ TickAt("schedule")') =>
              /\ GLOBAL_TICK_COUNT' = Succ32(GLOBAL_TICK_COUNT)
              /\ pendsvPending' = pendsvPending
        /\ (TickAt("schedule") /\ TickAt("ret")') =>
              /\ pendsvPending'
              /\ GLOBAL_TICK_COUNT' = GLOBAL_TICK_COUNT
        /\ (GLOBAL_TICK_COUNT' # GLOBAL_TICK_COUNT) =>
              (TickAt("inc") /\ TickAt("schedule")') ]_vars

TickHandlerEffect_witness ==
    /\ TickAt("ret")
    /\ pendsvPending
    /\ GLOBAL_TICK_COUNT = ZERO
    /\ nticks = 1

\* a step taken by the SysTick handler: it is the innermost active handler
\* and its position or its activation changes
TickHandlerStep ==
    /\ active # <<>>
    /\ Top = SYSTICK_EXC
    /\ (hpc' # hpc \/ active' # active)
    /\ Len(active') <= Len(active)

\* C25: an execution of the SysTick handler changes no field of any TCB,
\* not the current task index, and no word of task stack memory.
TickHandlerFrame ==
    [][TickHandlerStep => /\ TASKS' = TASKS
                          /\ CURRENT_TASK_IDX' = CURRENT_TASK_IDX
                          /\ mem' = mem]_vars

TickHandlerFrame_witness ==
    /\ TickAt("ret")
    /\ spsel
    /\ lr = EXC_RETURN_THREAD_PSP
    /\ nticks >= 2
    /\ Len(picks) >= 1

\* everything but the position inside the handlers
AllButPosition ==
    <<TASKS, CURRENT_TASK_IDX, GLOBAL_TICK_COUNT, TAKEN, mem, regs, lr, pc,
      PSP, MSP, spsel, SHPR3, FPCCR, pendsvPending, systickPending, st_csr,
      st_rvr, active, framed, fault, picks, held, everRan, nticks,
      interval_ms, core_clk_mhz, prio_args, NVIC_IPR, AIRCR, GPIOD_ODR, toggle_value>>

\* the handler makes its second call of schedule()
SecondCall == TickAt("ret") /\ TickAt("again")'

\* C26: a second call of schedule() before the switch handler runs leaves
\* the state as the first call left it, with PendSV pending, and the switch
\* handler runs once for the two calls: never more often than the tick
\* handler has.
ScheduleIdempotent ==
    /\ [][SecondCall => (pendsvPending /\ UNCHANGED AllButPosition)]_vars
    /\ [](TickAt("again") => pendsvPending)
    /\ [](Len(picks) <= nticks)

\* the second tick handler has called schedule() twice, one switch has run
ScheduleIdempotent_witness ==
    /\ TickAt("again")
    /\ pendsvPending
    /\ lr = EXC_RETURN_THREAD_PSP
    /\ nticks = 2
    /\ Len(picks) = 1
    /\ GLOBAL_TICK_COUNT = W(0, 2)

\* the states and priorities of all tasks: what the policy may depend on,
\* together with the current index
PolicyInputs == [i \in DOMAIN TASKS |-> <<TASKS[i].current_state, TASKS[i].priority>>]

\* calls made from the same current index selected the same task
PicksAgree ==
    \A j, k \in 1..Len(picks) :
        picks[j][1] = picks[k][1] => picks[j][2] = picks[k][2]

BadIrq == prio_args.irq_number >= 240

BadGroup == prio_args.priority_group > 7

Halted == pc = PANIC_PC

\* C28: set_interrupt_priority with irq_number >= 240 and
\* set_interrupt_priority_grouping with priority_group > 7 end in the halt
\* state without writing an NVIC or SCB register, and the halt is final.
FatalArgumentErrors ==
    /\ [][BadIrq => NVIC_IPR' = NVIC_IPR]_vars
    /\ [][BadGroup => AIRCR' = AIRCR]_vars
    /\ [][(BadIrq /\ BadGroup) => Halted']_vars
    /\ [][Halted' => (NVIC_IPR' = NVIC_IPR /\ AIRCR' = AIRCR /\ SHPR3' = SHPR3)]_vars
    /\ [][~Halted]_vars

FatalArgumentErrors_witness ==
    /\ Halted
    /\ BadIrq
    /\ ~BadGroup
    /\ NVIC_IPR = [k \in {} |-> 0]
    /\ AIRCR = AIRCR_RESET

\* the switch handler's save, pick and restore steps
SaveStep == SwitchAt("save") /\ SwitchAt("pick")'

PickStep == SwitchAt("pick") /\ SwitchAt("restore")'

RestoreStep == SwitchAt("restore") /\ SwitchAt("ret")'

\* C29: the value saved while task A is current goes to TASKS[A].psp_value
\* before the current index changes; no step changes the saved value of a
\* task that is not the outgoing one; and the value the restore step gets
\* for the task made current is the one the table holds for it.
SavedPspRoundTrip ==
    /\ [][SaveStep =>
            /\ CURRENT_TASK_IDX' = CURRENT_TASK_IDX
            /\ TASKS'[CURRENT_TASK_IDX].psp_value = Sub32(PSP, CALLEE_BYTES)]_vars
    /\ [][StacksInitialised =>
            \A i \in Tasks :
                TASKS'[i].psp_value # TASKS[i].psp_value =>
                    (SaveStep /\ i = CURRENT_TASK_IDX)]_vars
    /\ [][RestoreStep =>
            /\ PSP' = Add32(TASKS[CURRENT_TASK_IDX].psp_value, CALLEE_BYTES)
            /\ \A r \in 4..11 :
                  regs'[r] = mem[Add32(TASKS[CURRENT_TASK_IDX].psp_value, 4 * (r - 4))]]_vars

\* task 1 has been saved, task 2 ran and was saved, and task 1 is restored
SavedPspRoundTrip_witness ==
    /\ SwitchAt("ret")
    /\ Len(picks) = 2
    /\ picks[1] = <<1, 2>>
    /\ picks[2] = <<2, 1>>
    /\ PSP = Add32(TASKS[1].psp_value, CALLEE_BYTES)
    /\ InRegion(1, PSP)

\* the fields of a TCB other than psp_value
FixedFields(t) == <<t.priority, t.current_state, t.block_count, t.task_handler>>

\* C30: save_psp_value changes only psp_value of the current task's TCB;
\* update_to_next_task changes only the current index; and after
\* init_task_stack no step changes the priority, state, block count or entry
\* of any TCB, or psp_value of a task that is not the current one.
SwitchHelpersFrame ==
    /\ [][SaveStep =>
            /\ \A i \in Tasks \ {CURRENT_TASK_IDX} : TASKS'[i] = TASKS[i]
            /\ FixedFields(TASKS'[CURRENT_TASK_IDX]) = FixedFields(TASKS[CURRENT_TASK_IDX])
            /\ CURRENT_TASK_IDX' = CURRENT_TASK_IDX
            /\ GLOBAL_TICK_COUNT' = GLOBAL_TICK_COUNT]_vars
    /\ [][PickStep => (TASKS' = TASKS /\ GLOBAL_TICK_COUNT' = GLOBAL_TICK_COUNT)]_vars
    /\ [][CURRENT_TASK_IDX' # CURRENT_TASK_IDX => PickStep]_vars
    /\ [][\A i \in Tasks : FixedFields(TASKS'[i]) = FixedFields(TASKS[i])]_vars
    /\ [][StacksInitialised =>
            \A i \in Tasks \ {CURRENT_TASK_IDX} :
                TASKS'[i].psp_value = TASKS[i].psp_value]_vars

\* a save has changed psp_value of task 1 and the pick has moved on to task 2
SwitchHelpersFrame_witness ==
    /\ SwitchAt("restore")
    /\ picks = <<<<1, 2>>>>
    /\ CURRENT_TASK_IDX = 2
    /\ spsel
    /\ TASKS[1].psp_value = Sub32(PSP, CALLEE_BYTES)
    /\ FixedFields(TASKS[1]) = FixedFields(TASKS_INIT[1])

\* a statement of scheduler_init executes in Thread mode
BootStep ==
    /\ active = <<>>
    /\ active' = <<>>
    /\ \E k \in 0..(NUM_BOOT_STEPS - 1) : pc = BootPc(k)
    /\ pc' # pc

\* C31: SysTick::take returns Some on the first call only; a later call of
\* scheduler_init writes neither the task table nor the stacks nor the
\* timer registers, and ends in the panic loop at the failed take.
OneTimeInit ==
    /\ [][(BootStep /\ pc = BootPc(4)) =>
            /\ TAKEN'
            /\ (pc' = BootPc(5)) = ~TAKEN
            /\ (pc' = PANIC_PC) = TAKEN]_vars
    /\ [][(BootStep /\ TAKEN /\ pc \in {BootPc(k) : k \in 0..4}) =>
            /\ TASKS' = TASKS
            /\ mem' = mem
            /\ st_rvr' = st_rvr
            /\ st_csr' = st_csr]_vars

Visited(T, c) == {(c + 1 + k) % NTask(T) : k \in 0..(NTask(T) - 2)}

\* C33: a call made while a non-idle task c is current looks at N-1 slots
\* from (c + 1) mod N, never at slot c, and selects a task other than c,
\* whatever the table holds.
RunningNotReselected ==
    \A k \in 1..Len(picks) :
        picks[k][1] # 0 =>
            /\ picks[k][1] \notin Visited(TASKS, picks[k][1])
            /\ Picked(k) \in Visited(TASKS, picks[k][1]) \cup {0}
            /\ Picked(k) # picks[k][1]

\* task 2 is current, READY, and alone has the lowest priority value
RunningNotReselected_witness ==
    /\ NTask(TASKS) = MAX_TASK
    /\ ReadyNonIdle(TASKS) = NonIdle(TASKS)
    /\ \A j \in NonIdle(TASKS) \ {2} : TASKS[2].priority < TASKS[j].priority
    /\ Len(picks) >= 1
    /\ picks[1][1] = 2
    /\ Picked(1) # 2

\* task i completes a toggle: its write to the output register
ToggleCompletes(i) == toggle_value[i] # NoValue /\ toggle_value'[i] = NoValue

\* C34: a toggle completed by a task flips that task's pin in the output
\* register and leaves every other bit as it is at that moment, so that no
\* toggle another task has completed is lost or undone; and nothing else
\* writes the register.
TogglesDoNotInterfere ==
    /\ [][\A i \in Tasks :
            ToggleCompletes(i) => GPIOD_ODR' = Toggled(GPIOD_ODR, LedPinOf(i))]_vars
    /\ [][GPIOD_ODR' # GPIOD_ODR => \E i \in Tasks : ToggleCompletes(i)]_vars

=============================================================================
